---- MODULE Spec2Model ----
(***************************************************************************)
(* Threshold secret sharing over RNS ring elements: the Thresholdizer      *)
(* (Shamir polynomial generation, share evaluation, share aggregation) and *)
(* the Combiner (Lagrange coefficient precomputation, additive shares).    *)
(*                                                                         *)
(* Scaling of the parameters.  The modulus chain keeps its shape (a base   *)
(* chain Q of several primes and an extension P) with small odd primes in  *)
(* place of the 36..43 bit ones; the Montgomery radix stays 2^64.  A ring  *)
(* element keeps one coefficient per limb: every operation used here acts  *)
(* on the coefficients of a limb one by one, with the same scalar.         *)
(***************************************************************************)
EXTENDS Integers, Sequences, FiniteSets, TLC

----------------------------------------------------------------------------
(* Parameters and bounds *)

\* The base chain Q and the extension P of the parameter set.
ModuliQ == <<7, 11>>
ModuliP == <<13>>
Moduli == ModuliQ \o ModuliP
QLen == Len(ModuliQ)
PLen == Len(ModuliP)
QPLen == Len(Moduli)

\* Number of parties that hold an identity.
NParties == 3
\* Largest threshold tried (thresholds below 1 are tried too).
MaxT == 3
\* Seeds of a dealer's PRNG are 0..MaxSeed.
MaxSeed == 1
\* Secrets of a dealer are Secret(0)..Secret(MaxSecret).
MaxSecret == 1

\* The identities (uint64) the parties are drawn from.  8 is congruent to 1
\* modulo the first prime of the chain, as q0 + 1 is in the full-size chain.
PointSet == {0, 1, 2, 3, 8}

Dealers == 1..2
Parties == 1..NParties

\* Error values returned by the operations ("panic" is a Go runtime panic).
NoErr == "nil"
ErrThreshold == "threshold should be >= 1"
ErrLevels == "cannot AggregateShares: shares level do not match"
ErrActives == "cannot GenAdditiveShare: Not enough active players to combine threshold shares"
Panic == "panic"

\* A Go nil slice / absent value.
Nil == <<>>

----------------------------------------------------------------------------
(* Ring arithmetic provider: one limb *)

RECURSIVE PowMod(_, _, _)
PowMod(b, e, q) == IF e = 0 THEN 1 % q ELSE (b * PowMod(b, e - 1, q)) % q

ModuliSet == {Moduli[i] : i \in 1..QPLen}

\* 2^64 mod q and its inverse mod q, for every prime of the chain.
MontR == [q \in ModuliSet |-> PowMod(2, 64, q)]
MontRInv == [q \in ModuliSet |-> PowMod(MontR[q], q - 2, q)]

\* MForm(a) = a * 2^64 mod q.
MForm(a, q) == (a * MontR[q]) % q

\* IMForm(a) = a * 2^-64 mod q.
IMForm(a, q) == (a * MontRInv[q]) % q

\* MRed(x, y) = x * y * 2^-64 mod q.
MRed(x, y, q) == (x * y * MontRInv[q]) % q

\* Square-and-multiply on Montgomery forms, starting from MForm(1).
RECURSIVE ModexpLoop(_, _, _, _)
ModexpLoop(result, x, i, q) ==
    IF i = 0 THEN result
    ELSE ModexpLoop(IF i % 2 = 1 THEN MRed(result, x, q) ELSE result,
                    MRed(x, x, q), i \div 2, q)

ModexpMontgomery(x, e, q) == ModexpLoop(MForm(1, q), x, e, q)

----------------------------------------------------------------------------
(* Ring arithmetic provider: RNS scalars of the ring QP *)

NewRNSScalar == [i \in 1..QPLen |-> 0]

NewRNSScalarFromUInt64(v) == [i \in 1..QPLen |-> v % Moduli[i]]

SubRNSScalar(s1, s2) ==
    [i \in 1..QPLen |->
        IF s2[i] > s1[i] THEN s1[i] + Moduli[i] - s2[i] ELSE s1[i] - s2[i]]

\* In-place inversion of a scalar taken to be in Montgomery form.
Inverse(a) == [i \in 1..QPLen |-> ModexpMontgomery(a[i], Moduli[i] - 2, Moduli[i])]

\* sout = s1 * s2 (Montgomery) on the first n limbs, the limbs of the ring
\* the call is made on; the other limbs of sout keep their value.
MulRNSScalar(n, s1, s2, sout) ==
    [i \in 1..QPLen |-> IF i <= n THEN MRed(s1[i], s2[i], Moduli[i]) ELSE sout[i]]

----------------------------------------------------------------------------
(* Ring arithmetic provider: ring elements *)

\* A ring.Poly over the moduli r is the sequence of its limbs; its level is
\* its number of limbs minus one.  A ringqp.Poly is [Q |-> limbs, P |-> limbs].
ZeroLimbs(n) == [i \in 1..n |-> 0]

NewPolyQ == ZeroLimbs(QLen)
NewPolyQP == [Q |-> ZeroLimbs(QLen), P |-> ZeroLimbs(PLen)]

LevelOf(limbs) == Len(limbs) - 1
LevelQ(p) == LevelOf(p.Q)
LevelP(p) == LevelOf(p.P)

\* Add at the level of the operands.
AddLimbs(r, a, b) == [i \in 1..Len(a) |-> (a[i] + b[i]) % r[i]]
AddQP(a, b) == [Q |-> AddLimbs(ModuliQ, a.Q, b.Q), P |-> AddLimbs(ModuliP, a.P, b.P)]

\* MulScalar: the uint64 scalar is put in Montgomery form on every limb.
MulScalarLimbs(r, a, scalar) ==
    [i \in 1..Len(a) |-> MRed(a[i], MForm(scalar, r[i]), r[i])]

\* EvalPolyScalar: Horner from the highest coefficient down.
RECURSIVE HornerLimbs(_, _, _, _, _)
HornerLimbs(r, coeffs, scalar, acc, i) ==
    IF i = 0 THEN acc
    ELSE HornerLimbs(r, coeffs, scalar,
                     AddLimbs(r, MulScalarLimbs(r, acc, scalar), coeffs[i]), i - 1)

EvalPolyScalarLimbs(r, coeffs, scalar) ==
    HornerLimbs(r, coeffs, scalar, coeffs[Len(coeffs)], Len(coeffs) - 1)

\* MulRNSScalarMontgomery on a ring of full level: limb i of p2 is written
\* from limb i of p1 for i = 1, 2, ...; an operand with fewer limbs than the
\* ring makes the index run out of range, after the earlier limbs of p2
\* were written.  scalar holds the limbs of the scalar for this ring.
MulRNSScalarMontgomeryLimbs(r, p1, scalar, p2) ==
    LET ok == IF Len(p1) < Len(p2) THEN Len(p1) ELSE Len(p2)
        n == IF ok < Len(r) THEN ok ELSE Len(r)
    IN [panic |-> ok < Len(r),
        out |-> [i \in 1..Len(p2) |->
                    IF i <= n THEN MRed(p1[i], scalar[i], r[i]) ELSE p2[i]]]

MulRNSScalarMontgomeryQP(p1, scalar, p2) ==
    LET q == MulRNSScalarMontgomeryLimbs(ModuliQ, p1.Q, SubSeq(scalar, 1, QLen), p2.Q)
        p == MulRNSScalarMontgomeryLimbs(ModuliP, p1.P, SubSeq(scalar, QLen + 1, QPLen), p2.P)
    IN IF q.panic THEN [panic |-> TRUE, out |-> [Q |-> q.out, P |-> p2.P]]
       ELSE [panic |-> p.panic, out |-> [Q |-> q.out, P |-> p.out]]

----------------------------------------------------------------------------
(* Ring arithmetic provider: uniform sampling *)

\* The uniform samplers of a Thresholdizer (usamplerQ, usamplerQP) draw from
\* one PRNG; its state is the number of the next block.  Block st gives the
\* residue (st * 123 + 45) mod q on the limb of modulus q.
UniformLimbs(r, st) == [i \in 1..Len(r) |-> (st * 123 + 45) % r[i]]
ReadQ(st) == UniformLimbs(ModuliQ, st)
ReadQP(st) == [Q |-> UniformLimbs(ModuliQ, st), P |-> UniformLimbs(ModuliP, st)]

----------------------------------------------------------------------------
(* Thresholdizer *)

\* GenShamirPolynomialQ that samples its constant term too.
GenShamirPolynomialQAllSampled(threshold, secret, prng) ==
    IF threshold < 1
    THEN [value |-> Nil, err |-> ErrThreshold, prng |-> prng]
    ELSE [value |-> [i \in 1..threshold |-> ReadQ(prng + i - 1)],
          err |-> NoErr,
          prng |-> prng + threshold]

\* GenShamirPolynomialQ that rejects only negative thresholds.
GenShamirPolynomialQBelowZero(threshold, secret, prng) ==
    IF threshold < 0
    THEN [value |-> Nil, err |-> ErrThreshold, prng |-> prng]
    ELSE [value |-> [i \in 1..threshold |->
                        IF i = 1 THEN secret ELSE ReadQ(prng + i - 2)],
          err |-> NoErr,
          prng |-> prng + threshold - 1]

GenShamirPolynomialQ(threshold, secret, prng) ==
    IF threshold < 1
    THEN [value |-> Nil, err |-> ErrThreshold, prng |-> prng]
    ELSE [value |-> [i \in 1..threshold |->
                        IF i = 1 THEN secret ELSE ReadQ(prng + i - 2)],
          err |-> NoErr,
          prng |-> prng + threshold - 1]

\* GenShamirPolynomialQP that makes one coefficient too many.
GenShamirPolynomialQPOneMore(threshold, secret, prng) ==
    IF threshold < 1
    THEN [value |-> Nil, err |-> ErrThreshold, prng |-> prng]
    ELSE [value |-> [i \in 1..(threshold + 1) |->
                        IF i = 1 THEN secret ELSE ReadQP(prng + i - 2)],
          err |-> NoErr,
          prng |-> prng + threshold]

GenShamirPolynomialQP(threshold, secret, prng) ==
    IF threshold < 1
    THEN [value |-> Nil, err |-> ErrThreshold, prng |-> prng]
    ELSE [value |-> [i \in 1..threshold |->
                        IF i = 1 THEN secret ELSE ReadQP(prng + i - 2)],
          err |-> NoErr,
          prng |-> prng + threshold - 1]

AllocateThresholdSecretShareQ == NewPolyQ
AllocateThresholdSecretShare == NewPolyQP

\* GenShamirSecretShareQ that takes the coefficients from the wrong end.
GenShamirSecretShareQReversed(recipient, secretPoly, shareOut) ==
    EvalPolyScalarLimbs(ModuliQ,
        [i \in 1..Len(secretPoly) |-> secretPoly[Len(secretPoly) + 1 - i]], recipient)

\* shareOut is overwritten with secretPoly evaluated at the recipient.
GenShamirSecretShareQ(recipient, secretPoly, shareOut) ==
    EvalPolyScalarLimbs(ModuliQ, secretPoly, recipient)

\* GenShamirSecretShareQP that stops at the coefficient it starts from,
\* taken from the low end.
GenShamirSecretShareQPConstantTerm(recipient, secretPoly, shareOut) ==
    secretPoly[1]

\* GenShamirSecretShareQP that evaluates at the recipient's identity plus
\* one, so that no identity reads the constant term.
GenShamirSecretShareQPShifted(recipient, secretPoly, shareOut) ==
    [Q |-> EvalPolyScalarLimbs(ModuliQ,
                [i \in 1..Len(secretPoly) |-> secretPoly[i].Q], recipient + 1),
     P |-> EvalPolyScalarLimbs(ModuliP,
                [i \in 1..Len(secretPoly) |-> secretPoly[i].P], recipient + 1)]

GenShamirSecretShareQP(recipient, secretPoly, shareOut) ==
    [Q |-> EvalPolyScalarLimbs(ModuliQ,
                [i \in 1..Len(secretPoly) |-> secretPoly[i].Q], recipient),
     P |-> EvalPolyScalarLimbs(ModuliP,
                [i \in 1..Len(secretPoly) |-> secretPoly[i].P], recipient)]

\* AggregateShares that does not compare the P level of outShare.
AggregateSharesNoOutLevelP(share1, share2, outShare) ==
    IF \/ LevelQ(share1) # LevelQ(share2)
       \/ LevelQ(share1) # LevelQ(outShare)
       \/ LevelP(share1) # LevelP(share2)
    THEN [err |-> ErrLevels, out |-> outShare]
    ELSE [err |-> NoErr, out |-> AddQP(share1, share2)]

\* AggregateShares that adds share1 to itself.
AggregateSharesFirstTwice(share1, share2, outShare) ==
    IF \/ LevelQ(share1) # LevelQ(share2)
       \/ LevelQ(share1) # LevelQ(outShare)
       \/ LevelP(share1) # LevelP(share2)
       \/ LevelP(share1) # LevelP(outShare)
    THEN [err |-> ErrLevels, out |-> outShare]
    ELSE [err |-> NoErr, out |-> AddQP(share1, share1)]

\* AggregateShares that writes the second share over the aggregate.
AggregateSharesLast(share1, share2, outShare) ==
    IF \/ LevelQ(share1) # LevelQ(share2)
       \/ LevelQ(share1) # LevelQ(outShare)
       \/ LevelP(share1) # LevelP(share2)
       \/ LevelP(share1) # LevelP(outShare)
    THEN [err |-> ErrLevels, out |-> outShare]
    ELSE [err |-> NoErr, out |-> share2]

AggregateShares(share1, share2, outShare) ==
    IF \/ LevelQ(share1) # LevelQ(share2)
       \/ LevelQ(share1) # LevelQ(outShare)
       \/ LevelP(share1) # LevelP(share2)
       \/ LevelP(share1) # LevelP(outShare)
    THEN [err |-> ErrLevels, out |-> outShare]
    ELSE [err |-> NoErr, out |-> AddQP(share1, share2)]

----------------------------------------------------------------------------
(* Combiner *)

SeqRange(s) == {s[k] : k \in 1..Len(s)}

\* lagrangeCoeff with the last product taken with thisKey for thatKey.
lagrangeCoeffTimesThis(thisKey, thatKey) ==
    LET this == NewRNSScalarFromUInt64(thisKey)
        that == NewRNSScalarFromUInt64(thatKey)
        diff == SubRNSScalar(that, this)
        inv == Inverse(diff)
    IN MulRNSScalar(QPLen, inv, this, inv)

lagrangeCoeff(thisKey, thatKey) ==
    LET this == NewRNSScalarFromUInt64(thisKey)
        that == NewRNSScalarFromUInt64(thatKey)
        diff == SubRNSScalar(that, this)
        inv == Inverse(diff)
    IN MulRNSScalar(QPLen, inv, that, inv)

\* NewCombiner that leaves one out of Montgomery form.
NewCombinerPlainOne(own, others, threshold) ==
    [threshold |-> threshold,
     tmp2 |-> NewRNSScalar,
     one |-> NewRNSScalarFromUInt64(1),
     lagrangeCoeffs |-> [spk \in SeqRange(others) \ {own} |-> lagrangeCoeff(own, spk)]]

\* NewCombiner that does not skip the instantiator's own identity.
NewCombinerKeepsOwn(own, others, threshold) ==
    [threshold |-> threshold,
     tmp2 |-> NewRNSScalar,
     one |-> [i \in 1..QPLen |-> MForm(NewRNSScalarFromUInt64(1)[i], Moduli[i])],
     lagrangeCoeffs |-> [spk \in SeqRange(others) |-> lagrangeCoeff(own, spk)]]

\* A Combiner: threshold, the scratch scalar tmp2 (a slice, shared by the
\* value copies of the Combiner), one in Montgomery form, and the table of
\* coefficients.  tmp1 is only ever assigned in a method's own copy.
\* NewCombiner that stores coefficients for the first threshold entries of
\* others only.
NewCombinerFirstThreshold(own, others, threshold) ==
    [threshold |-> threshold,
     tmp2 |-> NewRNSScalar,
     one |-> [i \in 1..QPLen |-> MForm(NewRNSScalarFromUInt64(1)[i], Moduli[i])],
     lagrangeCoeffs |->
        [spk \in {others[k] : k \in {j \in 1..Len(others) : j <= threshold}} \ {own}
            |-> lagrangeCoeff(own, spk)]]

NewCombiner(own, others, threshold) ==
    [threshold |-> threshold,
     tmp2 |-> NewRNSScalar,
     one |-> [i \in 1..QPLen |-> MForm(NewRNSScalarFromUInt64(1)[i], Moduli[i])],
     lagrangeCoeffs |-> [spk \in SeqRange(others) \ {own} |-> lagrangeCoeff(own, spk)]]

\* The loop over activesPoints[:threshold], on the first n limbs of prod.
\* An identity that is neither ownPoint nor a key of the table reads a nil
\* scalar from the map, and multiplying by it indexes out of range.
RECURSIVE LagrangeProduct(_, _, _, _, _, _)
LagrangeProduct(n, coeffs, pts, ownPoint, prod, k) ==
    IF k > Len(pts) THEN [panic |-> FALSE, prod |-> prod]
    ELSE IF pts[k] = ownPoint
         THEN LagrangeProduct(n, coeffs, pts, ownPoint, prod, k + 1)
    ELSE IF pts[k] \notin DOMAIN coeffs
         THEN [panic |-> TRUE, prod |-> prod]
    ELSE LagrangeProduct(n, coeffs, pts, ownPoint,
                         MulRNSScalar(n, prod, coeffs[pts[k]], prod), k + 1)

\* GenAdditiveShareQ that does not copy one into the scratch scalar.
GenAdditiveShareQNoReset(cmb, activesPoints, ownPoint, ownShare, skOut) ==
    IF Len(activesPoints) < cmb.threshold
    THEN [err |-> ErrActives, skOut |-> skOut, tmp2 |-> cmb.tmp2]
    ELSE IF cmb.threshold < 0
    THEN [err |-> Panic, skOut |-> skOut, tmp2 |-> cmb.tmp2]
    ELSE LET loop == LagrangeProduct(QLen, cmb.lagrangeCoeffs,
                        SubSeq(activesPoints, 1, cmb.threshold), ownPoint, cmb.tmp2, 1)
             mul == MulRNSScalarMontgomeryLimbs(ModuliQ, ownShare, loop.prod, skOut)
         IN IF loop.panic
            THEN [err |-> Panic, skOut |-> skOut, tmp2 |-> loop.prod]
            ELSE [err |-> IF mul.panic THEN Panic ELSE NoErr,
                  skOut |-> mul.out, tmp2 |-> loop.prod]

GenAdditiveShareQ(cmb, activesPoints, ownPoint, ownShare, skOut) ==
    IF Len(activesPoints) < cmb.threshold
    THEN [err |-> ErrActives, skOut |-> skOut, tmp2 |-> cmb.tmp2]
    ELSE IF cmb.threshold < 0
    THEN [err |-> Panic, skOut |-> skOut, tmp2 |-> cmb.one]
    ELSE LET loop == LagrangeProduct(QLen, cmb.lagrangeCoeffs,
                        SubSeq(activesPoints, 1, cmb.threshold), ownPoint, cmb.one, 1)
             mul == MulRNSScalarMontgomeryLimbs(ModuliQ, ownShare, loop.prod, skOut)
         IN IF loop.panic
            THEN [err |-> Panic, skOut |-> skOut, tmp2 |-> loop.prod]
            ELSE [err |-> IF mul.panic THEN Panic ELSE NoErr,
                  skOut |-> mul.out, tmp2 |-> loop.prod]

\* GenAdditiveShareQP with the loop over all of activesPoints.
GenAdditiveShareQPWholeList(cmb, activesPoints, ownPoint, ownShare, skOut) ==
    IF Len(activesPoints) < cmb.threshold
    THEN [err |-> ErrActives, skOut |-> skOut, tmp2 |-> cmb.tmp2]
    ELSE IF cmb.threshold < 0
    THEN [err |-> Panic, skOut |-> skOut, tmp2 |-> cmb.one]
    ELSE LET loop == LagrangeProduct(QPLen, cmb.lagrangeCoeffs,
                        activesPoints, ownPoint, cmb.one, 1)
             mul == MulRNSScalarMontgomeryQP(ownShare, loop.prod, skOut)
         IN IF loop.panic
            THEN [err |-> Panic, skOut |-> skOut, tmp2 |-> loop.prod]
            ELSE [err |-> IF mul.panic THEN Panic ELSE NoErr,
                  skOut |-> mul.out, tmp2 |-> loop.prod]

\* GenAdditiveShareQP with the scratch scalar reset before the length check.
GenAdditiveShareQPResetFirst(cmb, activesPoints, ownPoint, ownShare, skOut) ==
    IF Len(activesPoints) < cmb.threshold
    THEN [err |-> ErrActives, skOut |-> skOut, tmp2 |-> cmb.one]
    ELSE IF cmb.threshold < 0
    THEN [err |-> Panic, skOut |-> skOut, tmp2 |-> cmb.one]
    ELSE LET loop == LagrangeProduct(QPLen, cmb.lagrangeCoeffs,
                        SubSeq(activesPoints, 1, cmb.threshold), ownPoint, cmb.one, 1)
             mul == MulRNSScalarMontgomeryQP(ownShare, loop.prod, skOut)
         IN IF loop.panic
            THEN [err |-> Panic, skOut |-> skOut, tmp2 |-> loop.prod]
            ELSE [err |-> IF mul.panic THEN Panic ELSE NoErr,
                  skOut |-> mul.out, tmp2 |-> loop.prod]

GenAdditiveShareQP(cmb, activesPoints, ownPoint, ownShare, skOut) ==
    IF Len(activesPoints) < cmb.threshold
    THEN [err |-> ErrActives, skOut |-> skOut, tmp2 |-> cmb.tmp2]
    ELSE IF cmb.threshold < 0
    THEN [err |-> Panic, skOut |-> skOut, tmp2 |-> cmb.one]
    ELSE LET loop == LagrangeProduct(QPLen, cmb.lagrangeCoeffs,
                        SubSeq(activesPoints, 1, cmb.threshold), ownPoint, cmb.one, 1)
             mul == MulRNSScalarMontgomeryQP(ownShare, loop.prod, skOut)
         IN IF loop.panic
            THEN [err |-> Panic, skOut |-> skOut, tmp2 |-> loop.prod]
            ELSE [err |-> IF mul.panic THEN Panic ELSE NoErr,
                  skOut |-> mul.out, tmp2 |-> loop.prod]

----------------------------------------------------------------------------
(* A sharing session: dealers share their secrets among the parties, the   *)
(* parties aggregate what they received, learn which parties are active,   *)
(* build their Combiner and compute their additive share.  The session     *)
(* runs the calls in a fixed order; every call is one step.                *)

VARIABLES
    mode,       \* "QP": shares over the extended chain; "Q": over the base chain
    thr,        \* the threshold given to the dealers and to the Combiners
    plan,       \* dealers whose shares every party aggregates, in order
    points,     \* points[i]: the ShamirPublicPoint of party i
    secret,     \* secret[d]: the ring element dealer d shares
    prng,       \* prng[d]: the PRNG state of dealer d's Thresholdizer
    poly,       \* poly[d]: the Shamir polynomial of dealer d (its Value)
    polyErr,    \* polyErr[d]: the error GenShamirPolynomial returned
    share,      \* share[d][i]: the share of dealer d for party i
    acc,        \* acc[i]: the aggregated share of party i
    aggErr,     \* aggErr[i]: the error of party i's last AggregateShares
    actives,    \* the list of active identities the parties agreed on
    cover,      \* "quorum": Combiners are built over actives; "all": over points
    cmb,        \* cmb[i]: the Combiner of party i
    skOut,      \* skOut[i]: the additive share of party i
    addErr,     \* addErr[i]: the error GenAdditiveShare returned to party i
    phase,      \* the calls being made: gen, eval, agg, quorum, cmb, add, done
    idx,        \* the next call of the phase
    call,       \* the arguments and results of a call made outside a session
    inst,       \* inst[c]: the Combiner value that caller c calls on
    scratch,    \* scratch[b]: the RNS scalar allocated as tmp2 by the b-th NewCombiner
    run,        \* run[c]: the GenAdditiveShare call of caller c, step by step
    hist        \* how the steps of the two callers have been scheduled so far

sessionVars == <<mode, thr, plan, points, secret, prng, poly, polyErr, share,
                 acc, aggErr, actives, cover, cmb, skOut, addErr, phase, idx>>

\* The Combiners called on outside a session, and their callers.
combinerVars == <<inst, scratch, run, hist>>

\* What a session leaves alone.
callVars == <<call, combinerVars>>

vars == <<sessionVars, callVars>>

NoCall == [op |-> "none"]

\* No Combiner is called on outside the session.
NoCombiners == inst = <<>> /\ scratch = <<>> /\ run = <<>> /\ hist = <<>>

\* The dealers of a session: both when the parties aggregate, else the first.
DealersOf(pl) == IF Len(pl) > 0 THEN Dealers ELSE {1}
NDealersOf(pl) == Cardinality(DealersOf(pl))

\* Secret number k, as a ring element of either chain.
SecretLimbs(r, k) == [i \in 1..Len(r) |-> (k * 40 + 1) % r[i]]
SecretOf(m, k) ==
    IF m = "QP" THEN [Q |-> SecretLimbs(ModuliQ, k), P |-> SecretLimbs(ModuliP, k)]
    ELSE SecretLimbs(ModuliQ, k)

\* The PRNG of every dealer starts on a stretch of blocks of its own.
DealerSeed(seed, d) == seed + (d - 1) * (MaxT + MaxSeed)

\* The parties' identities: distinct, listed in increasing order.
PointLists ==
    {s \in [Parties -> PointSet] : \A i, j \in Parties : i < j => s[i] < s[j]}

\* The lists of active identities tried: the prefixes of the rotations of
\* the parties' identities.
Rotate(s, k) == [i \in 1..Len(s) |-> s[((i + k - 1) % Len(s)) + 1]]
ActiveLists(s) == {SubSeq(Rotate(s, k), 1, n) : k \in 0..(Len(s) - 1), n \in 0..Len(s)}

Plans == {<<>>, <<1, 2>>}

\* The zero value Combiner{} a party holds before it calls NewCombiner.
ZeroCombiner == [threshold |-> 0, tmp2 |-> Nil, one |-> Nil, lagrangeCoeffs |-> <<>>]

NewBuffer(m) == IF m = "QP" THEN AllocateThresholdSecretShare
                ELSE AllocateThresholdSecretShareQ

Init ==
    /\ mode \in {"QP", "Q"}
    /\ thr \in (-1)..MaxT
    /\ plan \in (IF mode = "QP" THEN Plans ELSE {<<>>})
    /\ points \in PointLists
    /\ secret \in [DealersOf(plan) -> {SecretOf(mode, k) : k \in 0..MaxSecret}]
    /\ \E seed \in 0..MaxSeed :
          prng = [d \in DealersOf(plan) |-> DealerSeed(seed, d)]
    /\ poly = [d \in DealersOf(plan) |-> Nil]
    /\ polyErr = [d \in DealersOf(plan) |-> NoErr]
    /\ share = [d \in DealersOf(plan) |-> [i \in Parties |-> NewBuffer(mode)]]
    /\ acc = [i \in Parties |-> NewBuffer(mode)]
    /\ aggErr = [i \in Parties |-> NoErr]
    /\ actives = Nil
    /\ cover = "none"
    /\ cmb = [i \in Parties |-> ZeroCombiner]
    /\ skOut = [i \in Parties |-> NewBuffer(mode)]
    /\ addErr = [i \in Parties |-> NoErr]
    /\ phase = "gen"
    /\ idx = 1
    /\ call = NoCall
    /\ NoCombiners

\* After the last call of a phase the session moves on.
AfterGen(d, err) ==
    IF err # NoErr THEN <<"failed", 1>>
    ELSE IF d < NDealersOf(plan) THEN <<"gen", d + 1>>
    ELSE <<"eval", 1>>

AfterEval(k) ==
    IF k < NDealersOf(plan) * NParties THEN <<"eval", k + 1>>
    ELSE IF Len(plan) > 0 THEN <<"agg", 1>>
    ELSE <<"quorum", 1>>

AfterAgg(k) ==
    IF k < NParties * Len(plan) THEN <<"agg", k + 1>> ELSE <<"quorum", 1>>

AfterCmb(i) == IF i < NParties THEN <<"cmb", i + 1>> ELSE <<"add", 1>>

AfterAdd(i) == IF i < NParties THEN <<"add", i + 1>> ELSE <<"done", 1>>

\* Dealer idx generates its polynomial over QP.
GenPolyQP ==
    /\ phase = "gen" /\ mode = "QP"
    /\ LET d == idx
           r == GenShamirPolynomialQP(thr, secret[d], prng[d])
       IN /\ poly' = [poly EXCEPT ![d] = r.value]
          /\ polyErr' = [polyErr EXCEPT ![d] = r.err]
          /\ prng' = [prng EXCEPT ![d] = r.prng]
          /\ phase' = AfterGen(d, r.err)[1]
          /\ idx' = AfterGen(d, r.err)[2]
    /\ UNCHANGED callVars
    /\ UNCHANGED <<mode, thr, plan, points, secret, share, acc, aggErr,
                   actives, cover, cmb, skOut, addErr>>

\* Dealer idx generates its polynomial over Q.
GenPolyQ ==
    /\ phase = "gen" /\ mode = "Q"
    /\ LET d == idx
           r == GenShamirPolynomialQ(thr, secret[d], prng[d])
       IN /\ poly' = [poly EXCEPT ![d] = r.value]
          /\ polyErr' = [polyErr EXCEPT ![d] = r.err]
          /\ prng' = [prng EXCEPT ![d] = r.prng]
          /\ phase' = AfterGen(d, r.err)[1]
          /\ idx' = AfterGen(d, r.err)[2]
    /\ UNCHANGED callVars
    /\ UNCHANGED <<mode, thr, plan, points, secret, share, acc, aggErr,
                   actives, cover, cmb, skOut, addErr>>

\* The dealer and the recipient of the idx-th share evaluation.
EvalDealer(k) == ((k - 1) \div NParties) + 1
EvalParty(k) == ((k - 1) % NParties) + 1

GenShareQP ==
    /\ phase = "eval" /\ mode = "QP"
    /\ LET d == EvalDealer(idx)
           i == EvalParty(idx)
       IN share' = [share EXCEPT ![d][i] =
                        GenShamirSecretShareQP(points[i], poly[d], share[d][i])]
    /\ phase' = AfterEval(idx)[1]
    /\ idx' = AfterEval(idx)[2]
    /\ UNCHANGED callVars
    /\ UNCHANGED <<mode, thr, plan, points, secret, prng, poly, polyErr, acc,
                   aggErr, actives, cover, cmb, skOut, addErr>>

GenShareQ ==
    /\ phase = "eval" /\ mode = "Q"
    /\ LET d == EvalDealer(idx)
           i == EvalParty(idx)
       IN share' = [share EXCEPT ![d][i] =
                        GenShamirSecretShareQ(points[i], poly[d], share[d][i])]
    /\ phase' = AfterEval(idx)[1]
    /\ idx' = AfterEval(idx)[2]
    /\ UNCHANGED callVars
    /\ UNCHANGED <<mode, thr, plan, points, secret, prng, poly, polyErr, acc,
                   aggErr, actives, cover, cmb, skOut, addErr>>

\* The party and the plan entry of the idx-th aggregation.
AggParty(k) == ((k - 1) \div Len(plan)) + 1
AggDealer(k) == plan[((k - 1) % Len(plan)) + 1]

\* A party adds a received share to its aggregate, in place.
Aggregate ==
    /\ phase = "agg"
    /\ LET i == AggParty(idx)
           d == AggDealer(idx)
           r == AggregateShares(acc[i], share[d][i], acc[i])
       IN /\ acc' = [acc EXCEPT ![i] = r.out]
          /\ aggErr' = [aggErr EXCEPT ![i] = r.err]
    /\ phase' = AfterAgg(idx)[1]
    /\ idx' = AfterAgg(idx)[2]
    /\ UNCHANGED callVars
    /\ UNCHANGED <<mode, thr, plan, points, secret, prng, poly, polyErr, share,
                   actives, cover, cmb, skOut, addErr>>

\* The parties learn the list of active identities (from the transport).
AgreeQuorum ==
    /\ phase = "quorum"
    /\ actives' \in ActiveLists(points)
    /\ cover' \in {"quorum", "all"}
    /\ phase' = "cmb"
    /\ idx' = 1
    /\ UNCHANGED callVars
    /\ UNCHANGED <<mode, thr, plan, points, secret, prng, poly, polyErr, share,
                   acc, aggErr, cmb, skOut, addErr>>

OthersOf(cv, act, pts) == IF cv = "quorum" THEN act ELSE pts

BuildCombiner ==
    /\ phase = "cmb"
    /\ cmb' = [cmb EXCEPT ![idx] =
                  NewCombiner(points[idx], OthersOf(cover, actives, points), thr)]
    /\ phase' = AfterCmb(idx)[1]
    /\ idx' = AfterCmb(idx)[2]
    /\ UNCHANGED callVars
    /\ UNCHANGED <<mode, thr, plan, points, secret, prng, poly, polyErr, share,
                   acc, aggErr, actives, cover, skOut, addErr>>

\* The share a party combines: its aggregate, or the share of dealer 1 when
\* the session aggregates nothing.
OwnShare(i) == IF Len(plan) > 0 THEN acc[i] ELSE share[1][i]

AdditiveShareQP ==
    /\ phase = "add" /\ mode = "QP"
    /\ LET i == idx
           r == GenAdditiveShareQP(cmb[i], actives, points[i], OwnShare(i), skOut[i])
       IN /\ skOut' = [skOut EXCEPT ![i] = r.skOut]
          /\ addErr' = [addErr EXCEPT ![i] = r.err]
          /\ cmb' = [cmb EXCEPT ![i].tmp2 = r.tmp2]
    /\ phase' = AfterAdd(idx)[1]
    /\ idx' = AfterAdd(idx)[2]
    /\ UNCHANGED callVars
    /\ UNCHANGED <<mode, thr, plan, points, secret, prng, poly, polyErr, share,
                   acc, aggErr, actives, cover>>

AdditiveShareQ ==
    /\ phase = "add" /\ mode = "Q"
    /\ LET i == idx
           r == GenAdditiveShareQ(cmb[i], actives, points[i], OwnShare(i), skOut[i])
       IN /\ skOut' = [skOut EXCEPT ![i] = r.skOut]
          /\ addErr' = [addErr EXCEPT ![i] = r.err]
          /\ cmb' = [cmb EXCEPT ![i].tmp2 = r.tmp2]
    /\ phase' = AfterAdd(idx)[1]
    /\ idx' = AfterAdd(idx)[2]
    /\ UNCHANGED callVars
    /\ UNCHANGED <<mode, thr, plan, points, secret, prng, poly, polyErr, share,
                   acc, aggErr, actives, cover>>

Next ==
    \/ GenPolyQP
    \/ GenPolyQ
    \/ GenShareQP
    \/ GenShareQ
    \/ Aggregate
    \/ AgreeQuorum
    \/ BuildCombiner
    \/ AdditiveShareQP
    \/ AdditiveShareQ

Spec == Init /\ [][Next]_vars

-----------------------------------------------------------------------------
(* Sessions in which the transport delivers one dealer's share twice *)

\* The deliveries every party aggregates, in order: the share of one of
\* the two dealers arrives a second time.
ReplayPlans == {<<1, 2, 1>>, <<1, 2, 2>>}

ReplayInit ==
    /\ mode = "QP"
    /\ thr \in 1..MaxT
    /\ plan \in ReplayPlans
    /\ points \in PointLists
    /\ secret \in [Dealers -> {SecretOf("QP", k) : k \in 0..MaxSecret}]
    /\ \E seed \in 0..MaxSeed : prng = [d \in Dealers |-> DealerSeed(seed, d)]
    /\ poly = [d \in Dealers |-> Nil]
    /\ polyErr = [d \in Dealers |-> NoErr]
    /\ share = [d \in Dealers |-> [i \in Parties |-> NewPolyQP]]
    /\ acc = [i \in Parties |-> NewPolyQP]
    /\ aggErr = [i \in Parties |-> NoErr]
    /\ actives = Nil
    /\ cover = "none"
    /\ cmb = [i \in Parties |-> ZeroCombiner]
    /\ skOut = [i \in Parties |-> NewPolyQP]
    /\ addErr = [i \in Parties |-> NoErr]
    /\ phase = "gen"
    /\ idx = 1
    /\ call = NoCall
    /\ NoCombiners

ReplayNext ==
    \/ GenPolyQP
    \/ GenShareQP
    \/ Aggregate
    \/ AgreeQuorum
    \/ BuildCombiner
    \/ AdditiveShareQP

SpecReplay == ReplayInit /\ [][ReplayNext]_vars

----------------------------------------------------------------------------
(* Calls on values of any level.  A caller may hold shares and keys at any  *)
(* level of the chain: a ringqp.Poly with 1..QLen limbs of Q and 0..PLen    *)
(* limbs of P, a ring.Poly with 1..QLen limbs.  Every behaviour is one call *)
(* on such values, made outside a session, with its result recorded in call.*)

\* The first n limbs of a sequence of limbs, the first n entries of a list.
Truncate(limbs, n) == SubSeq(limbs, 1, n)
Prefix(list, n) == SubSeq(list, 1, n)

PolysQPAtLevels ==
    {[Q |-> Truncate(SecretLimbs(ModuliQ, k), lq),
      P |-> Truncate(SecretLimbs(ModuliP, k), lp)] :
        k \in 0..MaxSecret, lq \in 1..QLen, lp \in 0..PLen}

PolysQAtLevels ==
    {Truncate(SecretLimbs(ModuliQ, k), lq) : k \in 0..MaxSecret, lq \in 1..QLen}

\* The identities 1..NParties, the Combiner of the first of them over all
\* of them, and the active lists tried: the prefixes of the identities.
CallPoints == [i \in Parties |-> i]
CallCombiner(t) == NewCombiner(CallPoints[1], CallPoints, t)

NoSession ==
    /\ mode = "QP" /\ thr = 1 /\ plan = <<>>
    /\ points = CallPoints
    /\ secret = [d \in {1} |-> SecretOf("QP", 0)]
    /\ prng = [d \in {1} |-> 0]
    /\ poly = [d \in {1} |-> Nil]
    /\ polyErr = [d \in {1} |-> NoErr]
    /\ share = [d \in {1} |-> [i \in Parties |-> NewPolyQP]]
    /\ acc = [i \in Parties |-> NewPolyQP]
    /\ aggErr = [i \in Parties |-> NoErr]
    /\ actives = Nil
    /\ cover = "none"
    /\ cmb = [i \in Parties |-> ZeroCombiner]
    /\ skOut = [i \in Parties |-> NewPolyQP]
    /\ addErr = [i \in Parties |-> NoErr]
    /\ phase = "none"
    /\ idx = 1

\* The calls to make: the operation and its arguments, not yet made.
PendingAggregateShares ==
    {[op |-> "AggregateShares", done |-> FALSE, share1 |-> share1,
      share2 |-> share2, outShare |-> outShare, err |-> NoErr, out |-> outShare] :
        share1 \in PolysQPAtLevels, share2 \in PolysQPAtLevels,
        outShare \in PolysQPAtLevels}

PendingGenAdditiveShareQP ==
    {[op |-> "GenAdditiveShareQP", done |-> FALSE, threshold |-> t,
      actives |-> Prefix(CallPoints, n), ownShare |-> ownShare,
      skOut |-> out, err |-> NoErr, out |-> out] :
        t \in 1..MaxT, n \in 0..NParties,
        ownShare \in PolysQPAtLevels, out \in PolysQPAtLevels}

PendingGenAdditiveShareQ ==
    {[op |-> "GenAdditiveShareQ", done |-> FALSE, threshold |-> t,
      actives |-> Prefix(CallPoints, n), ownShare |-> ownShare,
      skOut |-> out, err |-> NoErr, out |-> out] :
        t \in 1..MaxT, n \in 0..NParties,
        ownShare \in PolysQAtLevels, out \in PolysQAtLevels}

LevelsInit ==
    /\ NoSession
    /\ NoCombiners
    /\ \/ call \in PendingAggregateShares
       \/ call \in PendingGenAdditiveShareQP
       \/ call \in PendingGenAdditiveShareQ

CallAggregateShares ==
    /\ call.op = "AggregateShares" /\ ~call.done
    /\ LET r == AggregateShares(call.share1, call.share2, call.outShare)
       IN call' = [call EXCEPT !.done = TRUE, !.err = r.err, !.out = r.out]
    /\ UNCHANGED <<sessionVars, combinerVars>>

CallGenAdditiveShareQP ==
    /\ call.op = "GenAdditiveShareQP" /\ ~call.done
    /\ LET r == GenAdditiveShareQP(CallCombiner(call.threshold), call.actives,
                                   CallPoints[1], call.ownShare, call.skOut)
       IN call' = [call EXCEPT !.done = TRUE, !.err = r.err, !.out = r.skOut]
    /\ UNCHANGED <<sessionVars, combinerVars>>

CallGenAdditiveShareQ ==
    /\ call.op = "GenAdditiveShareQ" /\ ~call.done
    /\ LET r == GenAdditiveShareQ(CallCombiner(call.threshold), call.actives,
                                  CallPoints[1], call.ownShare, call.skOut)
       IN call' = [call EXCEPT !.done = TRUE, !.err = r.err, !.out = r.skOut]
    /\ UNCHANGED <<sessionVars, combinerVars>>

LevelsNext ==
    \/ CallAggregateShares
    \/ CallGenAdditiveShareQP
    \/ CallGenAdditiveShareQ

SpecLevels == LevelsInit /\ [][LevelsNext]_vars

----------------------------------------------------------------------------
(* A Thresholdizer called outside a session, on ring elements kept in       *)
(* memory: call.mem[a] is the ring element stored at address a, the secret  *)
(* is at call.secret and the coefficients of the polynomial returned are at *)
(* the addresses call.value.  The caller generates a polynomial, may then   *)
(* overwrite coefficients of what it was returned, and evaluates shares.    *)

SecretAddress == 1

VariantOf(op) == IF op = "GenShamirPolynomialQP" THEN "QP" ELSE "Q"

\* CopyNew: a new ring element with the content of the one at address a.
CopyNew(mem, a) == [mem |-> Append(mem, mem[a]), at |-> Len(mem) + 1]

\* gen[0] = *secret.Value.CopyNew(); gen[i] = NewPoly() filled by the sampler.
PlacePolynomial(mem, secretAt, value) ==
    IF Len(value) = 0 THEN [mem |-> mem, at |-> Nil]
    ELSE LET cp == CopyNew(mem, secretAt)
         IN [mem |-> cp.mem \o SubSeq(value, 2, Len(value)),
             at |-> [j \in 1..Len(value) |->
                        IF j = 1 THEN cp.at ELSE Len(cp.mem) + j - 1]]

\* The polynomial whose coefficients are stored at the addresses at.
PolynomialAt(mem, at) == [j \in 1..Len(at) |-> mem[at[j]]]

PendingPolynomials(op) ==
    {[op |-> op, done |-> FALSE, threshold |-> t,
      mem |-> <<SecretOf(VariantOf(op), k)>>, secret |-> SecretAddress,
      given |-> SecretOf(VariantOf(op), k),
      prng |-> seed, prngAfter |-> seed, value |-> Nil, err |-> NoErr,
      wrote |-> {}, evaluated |-> FALSE, recipient |-> 0,
      share |-> NewBuffer(VariantOf(op))] :
        t \in 0..MaxT, k \in 0..MaxSecret, seed \in 0..MaxSeed}

PolynomialInit ==
    /\ NoSession
    /\ NoCombiners
    /\ \/ call \in PendingPolynomials("GenShamirPolynomialQP")
       \/ call \in PendingPolynomials("GenShamirPolynomialQ")

CallGenShamirPolynomialQP ==
    /\ call.op = "GenShamirPolynomialQP" /\ ~call.done
    /\ LET r == GenShamirPolynomialQP(call.threshold, call.mem[call.secret], call.prng)
           placed == PlacePolynomial(call.mem, call.secret, r.value)
       IN call' = [call EXCEPT !.done = TRUE, !.err = r.err, !.prngAfter = r.prng,
                               !.mem = placed.mem, !.value = placed.at]
    /\ UNCHANGED <<sessionVars, combinerVars>>

CallGenShamirPolynomialQ ==
    /\ call.op = "GenShamirPolynomialQ" /\ ~call.done
    /\ LET r == GenShamirPolynomialQ(call.threshold, call.mem[call.secret], call.prng)
           placed == PlacePolynomial(call.mem, call.secret, r.value)
       IN call' = [call EXCEPT !.done = TRUE, !.err = r.err, !.prngAfter = r.prng,
                               !.mem = placed.mem, !.value = placed.at]
    /\ UNCHANGED <<sessionVars, combinerVars>>

\* The caller overwrites a coefficient of the polynomial it was returned.
WriteCoefficient ==
    /\ call.done /\ ~call.evaluated
    /\ \E j \in (1..Len(call.value)) \ call.wrote :
          call' = [call EXCEPT !.mem[call.value[j]] = NewBuffer(VariantOf(call.op)),
                               !.wrote = @ \cup {j}]
    /\ UNCHANGED <<sessionVars, combinerVars>>

\* The caller evaluates the share of a recipient into its share buffer.
CallGenShamirSecretShare ==
    /\ call.done /\ call.err = NoErr
    /\ \E recipient \in PointSet :
          LET secretPoly == PolynomialAt(call.mem, call.value)
          IN call' = [call EXCEPT
                         !.evaluated = TRUE,
                         !.recipient = recipient,
                         !.share = IF call.op = "GenShamirPolynomialQP"
                                   THEN GenShamirSecretShareQP(recipient, secretPoly,
                                                               call.share)
                                   ELSE GenShamirSecretShareQ(recipient, secretPoly,
                                                              call.share)]
    /\ UNCHANGED <<sessionVars, combinerVars>>

PolynomialNext ==
    \/ CallGenShamirPolynomialQP
    \/ CallGenShamirPolynomialQ
    \/ WriteCoefficient
    \/ CallGenShamirSecretShare

SpecPolynomial == PolynomialInit /\ [][PolynomialNext]_vars

----------------------------------------------------------------------------
(* Two callers of GenAdditiveShare outside a session.  The first caller's   *)
(* Combiner is built by NewCombiner.  The second caller's Combiner is a     *)
(* value copy of it (the method receiver is a value: every call on one      *)
(* Combiner works on such a copy, whose tmp2 is the same slice) or is built *)
(* by a NewCombiner call of its own with the same arguments.  A call runs   *)
(* in steps: the length check with the copy of one into the scratch scalar, *)
(* one step per entry of activesPoints[:threshold], and the multiplication  *)
(* of the share by the scratch scalar.                                      *)

Callers == 1..2

Reverse(s) == [i \in 1..Len(s) |-> s[Len(s) + 1 - i]]

\* The lists a Combiner is built over, and the active lists of the callers.
OthersLists ==
    {Prefix(CallPoints, n) : n \in 2..NParties} \cup {SubSeq(CallPoints, 2, NParties)}
ForwardLists == {Prefix(CallPoints, n) : n \in 0..NParties}
BackwardLists == {Prefix(Reverse(CallPoints), n) : n \in 0..NParties}

NoInstance ==
    [how |-> "none", at |-> 0, own |-> 0, others |-> <<>>, cmb |-> ZeroCombiner,
     buf |-> 0]

\* A NewCombiner call that takes the scalar of the call before for tmp2.
FreshScratchShared(heap) == IF Len(heap) = 0 THEN 1 ELSE Len(heap)

\* The scalar a NewCombiner call allocates for tmp2 is a new one.
FreshScratch(heap) == Len(heap) + 1

\* A copy of a Combiner that copies the scratch scalar into one of its own.
ValueCopyScratchDeep(heap, b) == Len(heap) + 1

\* A value copy of a Combiner copies the slice tmp2, not the scalar it
\* points to: the copy's scratch scalar is the one of the original.
ValueCopyScratch(heap, b) == b

StoreScratch(heap, b, v) ==
    [i \in 1..(IF b > Len(heap) THEN b ELSE Len(heap)) |->
        IF i = b THEN v ELSE heap[i]]

PendingRun(variant, activesPoints, ownShare) ==
    [variant |-> variant, actives |-> activesPoints, ownPoint |-> CallPoints[1],
     ownShare |-> ownShare, pc |-> "idle", k |-> 1, steps |-> 0,
     out |-> NewBuffer(variant), err |-> NoErr]

CombinersInit ==
    /\ NoSession
    /\ call = NoCall
    /\ \E others \in OthersLists, t \in 1..MaxT :
          LET c == NewCombiner(CallPoints[1], others, t)
          IN /\ inst = <<[how |-> "new", at |-> 0, own |-> CallPoints[1],
                          others |-> others, cmb |-> c,
                          buf |-> FreshScratch(<<>>)],
                         NoInstance>>
             /\ scratch = StoreScratch(<<>>, FreshScratch(<<>>), c.tmp2)
    /\ \E a1 \in ForwardLists, a2 \in BackwardLists, v2 \in {"QP", "Q"} :
          run = <<PendingRun("QP", a1, SecretOf("QP", 0)),
                  PendingRun(v2, a2, SecretOf(v2, MaxSecret))>>
    /\ hist = [solo |-> TRUE, lockstep |-> TRUE]

\* The second caller takes a value copy of the first Combiner (at: the
\* number of steps the first caller had made by then).
CopyFirst ==
    /\ inst[2].how = "none"
    /\ LET b == ValueCopyScratch(scratch, inst[1].buf)
       IN /\ inst' = [inst EXCEPT ![2] =
                        [inst[1] EXCEPT !.how = "copy", !.at = run[1].steps,
                                        !.buf = b]]
          /\ scratch' = StoreScratch(scratch, b, scratch[inst[1].buf])
    /\ UNCHANGED <<sessionVars, call, run, hist>>

\* The second caller builds its Combiner with the arguments of the first.
BuildSecond ==
    /\ inst[2].how = "none"
    /\ LET c == NewCombiner(inst[1].own, inst[1].others, inst[1].cmb.threshold)
           b == FreshScratch(scratch)
       IN /\ inst' = [inst EXCEPT ![2] =
                        [how |-> "new", at |-> run[1].steps, own |-> inst[1].own,
                         others |-> inst[1].others, cmb |-> c, buf |-> b]]
          /\ scratch' = StoreScratch(scratch, b, c.tmp2)
    /\ UNCHANGED <<sessionVars, call, run, hist>>

\* The Combiner a caller's method works on: the fields of its value and the
\* scratch scalar its tmp2 points to.
CombinerOf(c) == [inst[c].cmb EXCEPT !.tmp2 = scratch[inst[c].buf]]

LimbsOf(variant) == IF variant = "QP" THEN QPLen ELSE QLen

\* The steps of the two callers alternate from the first step on, starting
\* with the first caller (lockstep); no step was taken while the other
\* caller was inside its call (solo).
Scheduled(c) ==
    [solo |-> hist.solo /\ run[3 - c].pc \in {"idle", "done"},
     lockstep |-> /\ hist.lockstep
                  /\ IF c = 1 THEN run[1].steps = run[2].steps
                     ELSE run[2].steps = run[1].steps - 1]

\* The length check, prod := cmb.tmp2 and copy(prod, cmb.one), leaving prod
\* as it is: the product then starts from what the call before left.
BeginProductNoCopy(cmbv, activesPoints) ==
    IF Len(activesPoints) < cmbv.threshold
    THEN [err |-> ErrActives, prod |-> cmbv.tmp2]
    ELSE [err |-> NoErr, prod |-> cmbv.tmp2]

\* The length check, prod := cmb.tmp2 and copy(prod, cmb.one).
BeginProduct(cmbv, activesPoints) ==
    IF Len(activesPoints) < cmbv.threshold
    THEN [err |-> ErrActives, prod |-> cmbv.tmp2]
    ELSE [err |-> NoErr, prod |-> cmbv.one]

Enter(c) ==
    /\ run[c].pc = "idle"
    /\ inst[c].how # "none"
    /\ LET r == BeginProduct(CombinerOf(c), run[c].actives)
       IN /\ scratch' = [scratch EXCEPT ![inst[c].buf] = r.prod]
          /\ run' = [run EXCEPT ![c].pc = IF r.err = NoErr THEN "loop" ELSE "done",
                                ![c].err = r.err,
                                ![c].steps = @ + 1]
    /\ hist' = Scheduled(c)
    /\ UNCHANGED <<sessionVars, call, inst>>

\* One iteration of the loop over activesPoints[:threshold].
Multiply(c) ==
    /\ run[c].pc = "loop"
    /\ LET cmbc == CombinerOf(c)
           k == run[c].k
           r == LagrangeProduct(LimbsOf(run[c].variant), cmbc.lagrangeCoeffs,
                                <<run[c].actives[k]>>, run[c].ownPoint, cmbc.tmp2, 1)
       IN /\ scratch' = [scratch EXCEPT ![inst[c].buf] = r.prod]
          /\ run' = [run EXCEPT
                        ![c].pc = IF r.panic THEN "done"
                                  ELSE IF k = cmbc.threshold THEN "final" ELSE "loop",
                        ![c].err = IF r.panic THEN Panic ELSE NoErr,
                        ![c].k = k + 1,
                        ![c].steps = @ + 1]
    /\ hist' = Scheduled(c)
    /\ UNCHANGED <<sessionVars, call, inst>>

\* MulRNSScalarMontgomery of the share by the scratch scalar.
Finish(c) ==
    /\ run[c].pc = "final"
    /\ LET prod == scratch[inst[c].buf]
           mul == IF run[c].variant = "QP"
                  THEN MulRNSScalarMontgomeryQP(run[c].ownShare, prod, run[c].out)
                  ELSE MulRNSScalarMontgomeryLimbs(ModuliQ, run[c].ownShare,
                                                   prod, run[c].out)
       IN run' = [run EXCEPT ![c].pc = "done",
                             ![c].err = IF mul.panic THEN Panic ELSE NoErr,
                             ![c].out = mul.out,
                             ![c].steps = @ + 1]
    /\ hist' = Scheduled(c)
    /\ UNCHANGED <<sessionVars, call, inst, scratch>>

CombinersNext ==
    \/ CopyFirst
    \/ BuildSecond
    \/ \E c \in Callers : Enter(c)
    \/ \E c \in Callers : Multiply(c)
    \/ \E c \in Callers : Finish(c)

SpecCombiners == CombinersInit /\ [][CombinersNext]_vars

----------------------------------------------------------------------------
(* Properties *)

\* Which calls of the session have been made.
Generated(d) ==
    \/ phase = "gen" /\ idx > d
    \/ phase = "failed" /\ d = 1
    \/ phase \notin {"gen", "failed"}
Evaluated(d, i) ==
    \/ phase = "eval" /\ idx > (d - 1) * NParties + i
    \/ phase \in {"agg", "quorum", "cmb", "add", "done"}
Built(i) == (phase = "cmb" /\ idx > i) \/ phase \in {"add", "done"}
Called(i) == (phase = "add" /\ idx > i) \/ phase = "done"

\* The parties whose identity is in a list.
Members(list) == {i \in Parties : points[i] \in SeqRange(list)}

\* The identities of a list are pairwise distinct modulo every prime of r.
DistinctMod(list, r) ==
    \A a, b \in SeqRange(list) :
        a # b => \A k \in 1..Len(r) : a % r[k] # b % r[k]

RECURSIVE SumSkOutQP(_)
SumSkOutQP(S) ==
    IF S = {} THEN NewPolyQP
    ELSE LET i == CHOOSE x \in S : TRUE
         IN AddQP(skOut[i], SumSkOutQP(S \ {i}))

RECURSIVE SumSkOutQ(_)
SumSkOutQ(S) ==
    IF S = {} THEN NewPolyQ
    ELSE LET i == CHOOSE x \in S : TRUE
         IN AddLimbs(ModuliQ, skOut[i], SumSkOutQ(S \ {i}))

\* A session over QP with one dealer, whose active list has exactly thr
\* entries and whose Combiners are built over that list.
ExactQuorumQP ==
    /\ phase = "done" /\ mode = "QP" /\ plan = <<>>
    /\ thr >= 1 /\ cover = "quorum" /\ Len(actives) = thr

ReconstructsQP(s) ==
    /\ \A i \in Members(actives) : addErr[i] = NoErr
    /\ SumSkOutQP(Members(actives)) = s

\* C1 as stated: for every set of thr distinct identities, the additive
\* shares that GenAdditiveShareQP gives the thr members of the quorum, each
\* on a Combiner built over the quorum, sum to the secret on every limb.
C1_ReconstructionAnyIdentities ==
    ExactQuorumQP => ReconstructsQP(secret[1])

\* C1 (amended): the same, for quorums whose identities are pairwise
\* distinct modulo every prime of the modulus chain.
C1_Reconstruction ==
    (ExactQuorumQP /\ DistinctMod(actives, Moduli)) => ReconstructsQP(secret[1])

\* A 2-out-of-3 quorum has combined and the two shares, neither of which is
\* the secret, sum to it.
C1_Witness ==
    /\ ExactQuorumQP /\ DistinctMod(actives, Moduli)
    /\ thr = 2
    /\ ReconstructsQP(secret[1])
    /\ \A i \in Members(actives) : skOut[i] # secret[1]

\* C2: a GenAdditiveShareQP or GenAdditiveShareQ call whose active list has
\* fewer entries than the Combiner's threshold returns the insufficient
\* parties error and changes neither skOut nor the Combiner (its scratch
\* scalar included: no arithmetic was done).
C2_InsufficientParties ==
    [][(phase = "add" /\ Len(actives) < cmb[idx].threshold)
        => /\ addErr'[idx] = ErrActives
           /\ skOut'[idx] = skOut[idx]
           /\ cmb'[idx] = cmb[idx]]_vars

\* A party called with too few active identities and got the error.
C2_Witness ==
    /\ phase = "done" /\ thr = 3 /\ Len(actives) = 2
    /\ \A i \in Parties : addErr[i] = ErrActives /\ skOut[i] = NewBuffer(mode)

\* A session over QP in which every party aggregated the shares of both
\* dealers and the active list has at least thr entries.
AggregatedQuorumQP ==
    /\ phase = "done" /\ mode = "QP" /\ plan = <<1, 2>>
    /\ thr >= 1 /\ Len(actives) >= thr

AggregatedReconstructs ==
    /\ \A i \in Parties : aggErr[i] = NoErr
    /\ \A i \in Members(Prefix(actives, thr)) : addErr[i] = NoErr
    /\ SumSkOutQP(Members(Prefix(actives, thr))) = AddQP(secret[1], secret[2])

\* C3 as stated: when two dealers share s1 and s2 with their own polynomials
\* of threshold thr and every recipient aggregates its two shares, the
\* additive shares of any quorum of thr recipients sum to s1 + s2 on every
\* limb.
C3_AggregationLinearityAnyQuorum ==
    AggregatedQuorumQP => AggregatedReconstructs

\* C3 (amended): the same, for quorums whose identities are pairwise
\* distinct modulo every prime of the modulus chain.
C3_AggregationLinearity ==
    (AggregatedQuorumQP /\ DistinctMod(Prefix(actives, thr), Moduli))
        => AggregatedReconstructs

\* Two different secrets were shared, every party aggregated two shares, and
\* a 2-out-of-3 quorum taken from a longer active list reconstructs the sum.
C3_Witness ==
    /\ AggregatedQuorumQP /\ DistinctMod(Prefix(actives, thr), Moduli)
    /\ thr = 2 /\ Len(actives) = 3
    /\ secret[1] # secret[2]
    /\ \A i \in Parties : acc[i] = AddQP(share[1][i], share[2][i]) /\ acc[i] # share[1][i]
    /\ AggregatedReconstructs

\* What threshold 1 gives the dealers: the polynomial is the secret alone
\* and every share is the secret.
ThresholdOneSharing ==
    /\ \A d \in DealersOf(plan) :
          Generated(d) => polyErr[d] = NoErr /\ poly[d] = <<secret[d]>>
    /\ \A d \in DealersOf(plan) : \A i \in Parties :
          Evaluated(d, i) => share[d][i] = secret[d]

\* C6 as stated: with threshold 1 the polynomial is the secret alone, every
\* share equals the secret, and GenAdditiveShareQP returns the secret to any
\* holder for any active list of at least one entry.
C6_ThresholdOneAnyActives ==
    (thr = 1 /\ mode = "QP")
        => /\ ThresholdOneSharing
           /\ \A i \in Parties :
                 (Called(i) /\ plan = <<>> /\ Len(actives) >= 1)
                     => addErr[i] = NoErr /\ skOut[i] = secret[1]

\* C6 (amended): the same, for active lists whose first entry is the
\* holder's own identity.
C6_ThresholdOne ==
    (thr = 1 /\ mode = "QP")
        => /\ ThresholdOneSharing
           /\ \A i \in Parties :
                 (Called(i) /\ plan = <<>> /\ Len(actives) >= 1
                            /\ actives[1] = points[i])
                     => addErr[i] = NoErr /\ skOut[i] = secret[1]

\* With threshold 1, the second party called with a list of several active
\* identities that starts with its own, and got the secret.
C6_Witness ==
    /\ thr = 1 /\ mode = "QP" /\ plan = <<>> /\ phase = "done"
    /\ Len(actives) >= 2 /\ actives[1] = points[2]
    /\ poly[1] = <<secret[1]>>
    /\ share[1][2] = secret[1]
    /\ addErr[2] = NoErr /\ skOut[2] = secret[1]

\* C7: GenShamirPolynomialQ and GenShamirPolynomialQP return an error and an
\* empty polynomial for a threshold below 1, leaving the PRNG of the
\* samplers and the secret as they were, and return no error for a
\* threshold of at least 1.
C7_InvalidThreshold ==
    [][phase = "gen"
        => IF thr < 1
           THEN /\ polyErr'[idx] = ErrThreshold
                /\ poly'[idx] = Nil
                /\ prng' = prng
                /\ secret' = secret
           ELSE polyErr'[idx] = NoErr]_vars

\* A dealer asked for a polynomial of threshold 0 and the session stopped
\* with the error, its PRNG where it started.
C7_Witness ==
    /\ phase = "failed" /\ thr = 0
    /\ polyErr[1] = ErrThreshold /\ poly[1] = Nil
    /\ \E seed \in 0..MaxSeed : prng[1] = DealerSeed(seed, 1)

\* A session over Q whose active list has exactly thr entries and whose
\* Combiners are built over that list.
ExactQuorumQ ==
    /\ phase = "done" /\ mode = "Q"
    /\ thr >= 1 /\ cover = "quorum" /\ Len(actives) = thr

ReconstructsQ ==
    /\ \A i \in Members(actives) : addErr[i] = NoErr
    /\ SumSkOutQ(Members(actives)) = secret[1]

\* What GenAdditiveShareQP gives on the Q limbs for the arguments party i
\* gave GenAdditiveShareQ.
SameCallOverQP(i) ==
    GenAdditiveShareQP(cmb[i], actives, points[i],
                       [Q |-> share[1][i], P |-> ZeroLimbs(PLen)], NewPolyQP)

\* GenAdditiveShareQ returned what GenAdditiveShareQP returns on the Q limbs.
SameProductAsQP ==
    \A i \in Parties :
        (mode = "Q" /\ Called(i))
            => /\ addErr[i] = SameCallOverQP(i).err
               /\ skOut[i] = SameCallOverQP(i).skOut.Q

\* C9 as stated: when a secret is shared over Q and every member of a
\* quorum of thr identities calls GenAdditiveShareQ on a Combiner built over
\* the quorum, the additive shares sum to the secret on every limb of Q;
\* GenAdditiveShareQ gives what GenAdditiveShareQP gives on the Q limbs.
C9_ReconstructionQAnyQuorum ==
    /\ ExactQuorumQ => ReconstructsQ
    /\ SameProductAsQP

\* C9 (amended): the same, for quorums whose identities are pairwise
\* distinct modulo every prime of the base chain Q.
C9_ReconstructionQ ==
    /\ (ExactQuorumQ /\ DistinctMod(actives, ModuliQ)) => ReconstructsQ
    /\ SameProductAsQP

\* A 2-out-of-3 quorum combined over Q: its two shares, neither of which is
\* the secret, sum to it.
C9_Witness ==
    /\ ExactQuorumQ /\ DistinctMod(actives, ModuliQ)
    /\ thr = 2
    /\ ReconstructsQ
    /\ \A i \in Members(actives) : skOut[i] # secret[1]

\* (other - own)^(q-2) * other mod q, the inverse being the (q-2)-th power
\* as the ring computes it.
CoefficientValue(own, other, q) ==
    (PowMod(((other % q) + q - (own % q)) % q, q - 2, q) * (other % q)) % q

\* C10: NewCombiner stores exactly one coefficient for every identity of
\* others that differs from own and none for own; the stored scalar, kept
\* in Montgomery form, is (other - own)^-1 * other on every limb.
C10_NewCombiner ==
    \A i \in Parties :
        Built(i) =>
            LET others == OthersOf(cover, actives, points)
                coeffs == cmb[i].lagrangeCoeffs
            IN /\ cmb[i].threshold = thr
               /\ DOMAIN coeffs = SeqRange(others) \ {points[i]}
               /\ \A o \in DOMAIN coeffs : \A k \in 1..QPLen :
                     IMForm(coeffs[o][k], Moduli[k])
                         = CoefficientValue(points[i], o, Moduli[k])

\* A Combiner was built from a list that holds its own identity: it has a
\* coefficient for each of the two others and none for its own.
C10_Witness ==
    /\ Built(1) /\ cover = "all"
    /\ points[1] \in SeqRange(OthersOf(cover, actives, points))
    /\ DOMAIN cmb[1].lagrangeCoeffs = {points[2], points[3]}
    /\ \E k \in 1..QPLen :
          cmb[1].lagrangeCoeffs[points[2]][k]
              # CoefficientValue(points[1], points[2], Moduli[k])

\* Polynomial p with limb l replaced: constant term s, higher terms c.
SetLimb(x, l, v) ==
    IF l <= QLen THEN [x EXCEPT !.Q[l] = v] ELSE [x EXCEPT !.P[l - QLen] = v]

AltPolynomial(p, l, s, c) ==
    [j \in 1..Len(p) |-> SetLimb(p[j], l, IF j = 1 THEN s ELSE c[j])]

\* The shares dealer d gave the parties S are also the shares of every other
\* value of the secret on every limb, for some random coefficients.
SharesHide(d, S) ==
    \A l \in 1..QPLen : \A s \in 0..(Moduli[l] - 1) :
        \E c \in [2..thr -> 0..(Moduli[l] - 1)] :
            \A i \in S :
                GenShamirSecretShareQP(points[i],
                        AltPolynomial(poly[d], l, s, c), NewPolyQP)
                    = share[d][i]

NonZeroMod(S) ==
    \A i \in S : \A k \in 1..QPLen : points[i] % Moduli[k] # 0

\* A dealer has evaluated all its shares over QP, with threshold >= 2.
SharesDealt == phase = "quorum" /\ mode = "QP" /\ plan = <<>> /\ thr >= 2

\* C8 as stated: with a threshold of at least 2, the shares given to any
\* set of fewer than thr identities are the shares of every candidate
\* secret, for some choice of the random coefficients.
C8_PrivacyAnyIdentities ==
    SharesDealt =>
        \A d \in DealersOf(plan) : \A S \in SUBSET Parties :
            Cardinality(S) < thr => SharesHide(d, S)

\* C8 (amended): the same, for sets of identities that are not 0 modulo any
\* prime of the modulus chain.
C8_Privacy ==
    SharesDealt =>
        \A d \in DealersOf(plan) : \A S \in SUBSET Parties :
            (Cardinality(S) < thr /\ NonZeroMod(S)) => SharesHide(d, S)

\* With threshold 3, two parties with non-zero identities hold shares that
\* differ from the secret and fit every other secret.
C8_Witness ==
    /\ SharesDealt /\ thr = 3
    /\ NonZeroMod({2, 3})
    /\ share[1][2] # secret[1] /\ share[1][3] # secret[1]
    /\ SharesHide(1, {2, 3})

\* The three operands of an AggregateShares call are at one level.
SameLevels(a, b, c) ==
    /\ LevelQ(a) = LevelQ(b) /\ LevelQ(a) = LevelQ(c)
    /\ LevelP(a) = LevelP(b) /\ LevelP(a) = LevelP(c)

\* C4: AggregateShares returns the level mismatch error, with outShare as
\* it was, whenever the Q levels or the P levels of share1, share2 and
\* outShare are not all equal, and no error when they are all equal.
C4_AggregateLevels ==
    (call.op = "AggregateShares" /\ call.done) =>
        IF SameLevels(call.share1, call.share2, call.outShare)
        THEN call.err = NoErr
        ELSE call.err = ErrLevels /\ call.out = call.outShare

\* Two shares at one level were aggregated into an outShare that differs
\* from them only in its P level: the call failed and outShare, which is
\* not their sum, is as it was.
C4_Witness ==
    /\ call.op = "AggregateShares" /\ call.done
    /\ LevelQ(call.share1) = LevelQ(call.share2)
    /\ LevelQ(call.share1) = LevelQ(call.outShare)
    /\ LevelP(call.share1) = LevelP(call.share2)
    /\ LevelP(call.share1) # LevelP(call.outShare)
    /\ call.err = ErrLevels
    /\ call.out = call.outShare
    /\ call.out.Q # AddQP(call.share1, call.share2).Q

\* ownShare and skOut of a combination call are at different levels.
CombineLevelsDiffer ==
    \/ /\ call.op = "GenAdditiveShareQP" /\ call.done
       /\ \/ LevelQ(call.ownShare) # LevelQ(call.skOut)
          \/ LevelP(call.ownShare) # LevelP(call.skOut)
    \/ /\ call.op = "GenAdditiveShareQ" /\ call.done
       /\ LevelOf(call.ownShare) # LevelOf(call.skOut)

\* C5: a GenAdditiveShareQP or GenAdditiveShareQ call whose ownShare and
\* skOut are at different levels fails with the level mismatch error and
\* leaves skOut as it was.
C5_CombineLevelMismatch ==
    CombineLevelsDiffer => call.err = ErrLevels /\ call.out = call.skOut

SampledBlock(j) ==
    IF call.op = "GenShamirPolynomialQP" THEN ReadQP(call.prng + j)
    ELSE ReadQ(call.prng + j)

\* C12: for a threshold of at least 1, GenShamirPolynomialQP and
\* GenShamirPolynomialQ return a polynomial of exactly threshold
\* coefficients: coefficient 0 is a copy of the secret, stored apart from
\* it, and coefficient j is the j-th element read from the sampler.  The
\* secret is as it was given, also after the caller has overwritten
\* coefficients of the polynomial.
C12_PolynomialShape ==
    (call.op \in {"GenShamirPolynomialQP", "GenShamirPolynomialQ"}
        /\ call.done /\ call.threshold >= 1)
        => /\ call.err = NoErr
           /\ Len(call.value) = call.threshold
           /\ call.value[1] # call.secret
           /\ 1 \notin call.wrote => call.mem[call.value[1]] = call.given
           /\ \A j \in 2..call.threshold :
                 j \notin call.wrote => call.mem[call.value[j]] = SampledBlock(j - 2)
           /\ call.prngAfter = call.prng + call.threshold - 1
           /\ call.mem[call.secret] = call.given

\* A polynomial of three coefficients was returned and the caller has
\* overwritten its constant term: the secret is still the one given.
C12_Witness ==
    /\ call.op = "GenShamirPolynomialQP" /\ call.done /\ call.threshold = 3
    /\ call.wrote = {1}
    /\ call.mem[call.value[1]] # call.given
    /\ call.mem[call.secret] = call.given
    /\ call.mem[call.value[2]] = ReadQP(call.prng)
    /\ call.mem[call.value[3]] = ReadQP(call.prng + 1)

\* The limbs of a ring element of a variant, and the primes they are modulo.
AllLimbs(variant, x) == IF variant = "QP" THEN x.Q \o x.P ELSE x
ChainOf(variant) == IF variant = "QP" THEN Moduli ELSE ModuliQ

\* c[j] + c[j+1] * x + ... modulo q, for the residues c of one limb, the
\* powers of x starting at x^(j-1).
RECURSIVE PolyValue(_, _, _, _)
PolyValue(c, x, q, j) ==
    IF j > Len(c) THEN 0
    ELSE (c[j] * PowMod(x % q, j - 1, q) + PolyValue(c, x, q, j + 1)) % q

\* The share is the value of the polynomial at the recipient on every limb.
IsValueOf(variant, share0, secretPoly, recipient) ==
    \A l \in 1..Len(ChainOf(variant)) :
        AllLimbs(variant, share0)[l]
            = PolyValue([j \in 1..Len(secretPoly) |-> AllLimbs(variant, secretPoly[j])[l]],
                        recipient, ChainOf(variant)[l], 1)

\* C13: GenShamirSecretShareQP and GenShamirSecretShareQ write into shareOut
\* the value of the polynomial at the recipient, c0 + c1*x + ... +
\* c_{t-1}*x^(t-1) modulo the prime of every limb, and leave the polynomial
\* as it was.
C13_ShareEvaluation ==
    [][(call.done /\ call'.wrote = call.wrote)
        => /\ call'.mem = call.mem
           /\ call'.value = call.value
           /\ IsValueOf(VariantOf(call.op), call'.share,
                        PolynomialAt(call.mem, call.value), call'.recipient)]_vars

\* A share of a polynomial of three coefficients was evaluated at 2: it is
\* neither the secret nor the value of the polynomial at 1.
C13_Witness ==
    /\ call.op = "GenShamirPolynomialQP" /\ call.done /\ call.evaluated
    /\ call.threshold = 3 /\ call.wrote = {} /\ call.recipient = 2
    /\ call.share # call.given
    /\ IsValueOf("QP", call.share, PolynomialAt(call.mem, call.value), 2)
    /\ ~IsValueOf("QP", call.share, PolynomialAt(call.mem, call.value), 1)

\* What the call of caller c returns when it runs alone, from start to end,
\* on its Combiner as NewCombiner returned it.
Alone(c) ==
    IF run[c].variant = "QP"
    THEN GenAdditiveShareQP(inst[c].cmb, run[c].actives, run[c].ownPoint,
                            run[c].ownShare, NewPolyQP)
    ELSE GenAdditiveShareQ(inst[c].cmb, run[c].actives, run[c].ownPoint,
                           run[c].ownShare, NewPolyQ)

ReturnedAsAlone(c) ==
    /\ run[c].out = Alone(c).skOut
    /\ run[c].err = Alone(c).err

\* C14: when the two callers call on Combiners built by separate
\* NewCombiner calls, then however their steps interleave each call returns
\* the share and the error it returns when run alone, and leaves in its own
\* scratch scalar what it leaves when run alone: the scratch scalars are two.
C14_SeparateInstances ==
    inst[2].how = "new" =>
        /\ inst[1].buf # inst[2].buf
        /\ \A c \in Callers :
              run[c].pc = "done"
                  => ReturnedAsAlone(c) /\ scratch[inst[c].buf] = Alone(c).tmp2

\* Two calls on separate Combiners ran with their steps alternating; each
\* multiplied its share by a product of its own and returned it.
C14_Witness ==
    /\ inst[2].how = "new" /\ inst[2].at = 0
    /\ hist.lockstep
    /\ \A c \in Callers :
          /\ run[c].pc = "done" /\ run[c].err = NoErr /\ run[c].variant = "QP"
          /\ ReturnedAsAlone(c)
          /\ run[c].out # run[c].ownShare
    /\ scratch[1] # scratch[2]

\* The product modulo q of the coefficients (other - own)^-1 * other of the
\* identities of S.
RECURSIVE CoefficientProduct(_, _, _)
CoefficientProduct(S, own, q) ==
    IF S = {} THEN 1 % q
    ELSE LET o == CHOOSE x \in S : TRUE
         IN (CoefficientValue(own, o, q) * CoefficientProduct(S \ {o}, own, q)) % q

\* A GenAdditiveShareQP call on a share and an output at the full level,
\* with at least threshold active identities.
FullLevelCombination ==
    /\ call.op = "GenAdditiveShareQP" /\ call.done
    /\ LevelQ(call.ownShare) = QLen - 1 /\ LevelP(call.ownShare) = PLen - 1
    /\ LevelQ(call.skOut) = QLen - 1 /\ LevelP(call.skOut) = PLen - 1
    /\ Len(call.actives) >= call.threshold

\* C15: with at least threshold active identities, GenAdditiveShareQP
\* returns ownShare multiplied on every limb by the product of the
\* coefficients of the identities other than ownPoint among the first
\* threshold entries of the list; it returns the same share for the first
\* threshold entries alone.
C15_FirstThresholdEntries ==
    FullLevelCombination =>
        LET first == Prefix(call.actives, call.threshold)
            alone == GenAdditiveShareQP(CallCombiner(call.threshold), first,
                                        CallPoints[1], call.ownShare, call.skOut)
        IN /\ call.err = NoErr
           /\ \A l \in 1..QPLen :
                 AllLimbs("QP", call.out)[l]
                     = (AllLimbs("QP", call.ownShare)[l]
                          * CoefficientProduct(SeqRange(first) \ {CallPoints[1]},
                                               CallPoints[1], Moduli[l])) % Moduli[l]
           /\ alone.err = NoErr /\ alone.skOut = call.out

\* A Combiner of threshold 2 was called with three active identities: the
\* share it returned is not the one a Combiner of threshold 3 returns for
\* the list.
C15_Witness ==
    /\ FullLevelCombination
    /\ call.threshold = 2 /\ Len(call.actives) = 3
    /\ call.err = NoErr
    /\ call.out # call.ownShare
    /\ call.out # GenAdditiveShareQP(CallCombiner(3), call.actives, CallPoints[1],
                                     call.ownShare, call.skOut).skOut

\* The threshold, one and the coefficients of a caller's Combiner are those
\* NewCombiner gave it.
AsConstructed(c) ==
    LET built == NewCombiner(inst[c].own, inst[c].others, inst[c].cmb.threshold)
    IN /\ inst[c].cmb.one = built.one
       /\ DOMAIN inst[c].cmb.lagrangeCoeffs = DOMAIN built.lagrangeCoeffs
       /\ \A o \in DOMAIN built.lagrangeCoeffs :
             inst[c].cmb.lagrangeCoeffs[o] = built.lagrangeCoeffs[o]

\* C16: whatever GenAdditiveShareQP and GenAdditiveShareQ calls have been
\* made on a Combiner, successful or failing, its threshold, its one and its
\* coefficients are those NewCombiner gave it; and when the calls were made
\* one after the other, each returned the share and the error it returns
\* on a Combiner never called before.
C16_ImmutableCombiner ==
    /\ \A c \in Callers : inst[c].how # "none" => AsConstructed(c)
    /\ hist.solo => \A c \in Callers : run[c].pc = "done" => ReturnedAsAlone(c)

\* After a GenAdditiveShareQP call had left a product other than one in the
\* scratch scalar, a GenAdditiveShareQ call on a copy of the Combiner
\* returned the share it returns alone.
C16_Witness ==
    /\ inst[2].how = "copy" /\ hist.solo
    /\ run[1].pc = "done" /\ run[1].err = NoErr /\ inst[2].at = run[1].steps
    /\ Alone(1).tmp2 # inst[1].cmb.one
    /\ run[2].pc = "done" /\ run[2].variant = "Q" /\ run[2].err = NoErr
    /\ run[2].out # run[2].ownShare
    /\ ReturnedAsAlone(2)
    /\ AsConstructed(1)

\* What the two calls multiplied into the scratch scalar between them.
BothProducts ==
    MulRNSScalar(QPLen, Alone(1).tmp2, Alone(2).tmp2, Alone(1).tmp2)

\* C17: two GenAdditiveShareQP calls on one Combiner, or on a value copy of
\* it, whose steps alternate (reset, reset, multiply, multiply, ..., final,
\* final) both multiply their share by the product of the coefficients of
\* both calls; a call whose share alone is non-zero on a limb where the
\* other call's product is not one returns another share than it returns
\* alone.
C17_SharedScratchRace ==
    ( /\ inst[2].how = "copy" /\ hist.lockstep
      /\ \A c \in Callers :
            run[c].pc = "done" /\ run[c].err = NoErr /\ run[c].variant = "QP" )
    => \A c \in Callers :
          /\ run[c].out =
                MulRNSScalarMontgomeryQP(run[c].ownShare, BothProducts, NewPolyQP).out
          /\ (\E l \in 1..QPLen :
                 /\ AllLimbs("QP", Alone(c).skOut)[l] # 0
                 /\ Alone(3 - c).tmp2[l] # inst[c].cmb.one[l])
             => run[c].out # Alone(c).skOut

\* Two calls on a Combiner and its value copy ran with their steps
\* alternating, and each returned a share that is not the one it returns
\* alone.
C17_Witness ==
    /\ inst[2].how = "copy" /\ hist.lockstep
    /\ inst[1].buf = inst[2].buf
    /\ \A c \in Callers :
          /\ run[c].pc = "done" /\ run[c].err = NoErr /\ run[c].variant = "QP"
          /\ Alone(c).err = NoErr
          /\ run[c].out # Alone(c).skOut

\* The dealer whose share the parties aggregated twice.
Replayed == plan[Len(plan)]

\* The sum of the dealers' secrets, and that sum with the replayed dealer's
\* secret counted twice.
SecretSum == AddQP(secret[1], secret[2])
SecretSumReplayed == AddQP(SecretSum, secret[Replayed])

\* C18: AggregateShares takes the share of a dealer a second time without
\* error; the aggregate of every party is then the sum of its three
\* deliveries, and the additive shares of a quorum (of identities pairwise
\* distinct modulo every prime) sum to the dealers' secrets with that
\* dealer's secret counted twice, which is not the sum of the secrets on any
\* limb where that dealer's secret is not zero.
C18_DuplicateShareCounted ==
    /\ phase \in {"quorum", "cmb", "add", "done"}
          => \A i \in Parties :
                /\ aggErr[i] = NoErr
                /\ acc[i] = AddQP(AddQP(share[1][i], share[2][i]),
                                  share[Replayed][i])
    /\ (phase = "done" /\ Len(actives) >= thr
        /\ DistinctMod(Prefix(actives, thr), Moduli))
          => LET sum == SumSkOutQP(Members(Prefix(actives, thr)))
             IN /\ \A i \in Members(Prefix(actives, thr)) : addErr[i] = NoErr
                /\ sum = SecretSumReplayed
                /\ \A l \in 1..QPLen :
                      AllLimbs("QP", secret[Replayed])[l] # 0
                          => AllLimbs("QP", sum)[l] # AllLimbs("QP", SecretSum)[l]

\* Every party added the share of dealer 1 twice and a 2-out-of-3 quorum
\* reconstructed a value that differs from the sum of the secrets on every
\* limb.
C18_Witness ==
    /\ phase = "done" /\ plan = <<1, 2, 1>> /\ thr = 2 /\ Len(actives) = 2
    /\ DistinctMod(actives, Moduli)
    /\ \A i \in Parties : aggErr[i] = NoErr /\ acc[i] # AddQP(share[1][i], share[2][i])
    /\ \A i \in Members(actives) : addErr[i] = NoErr
    /\ SumSkOutQP(Members(actives)) = SecretSumReplayed
    /\ \A l \in 1..QPLen :
          AllLimbs("QP", SumSkOutQP(Members(actives)))[l] # AllLimbs("QP", SecretSum)[l]

\* The identities of a set, listed in increasing order.
RECURSIVE ListOf(_)
ListOf(S) ==
    IF S = {} THEN <<>>
    ELSE LET least == CHOOSE x \in S : \A y \in S : x <= y
         IN <<least>> \o ListOf(S \ {least})

\* The identities a call reads a coefficient for: those among the first
\* threshold entries of its active list other than its own.
Needed(c) ==
    SeqRange(Prefix(run[c].actives, inst[c].cmb.threshold)) \ {run[c].ownPoint}

Covering(c, others) ==
    /\ Len(run[c].actives) >= inst[c].cmb.threshold
    /\ Needed(c) \subseteq SeqRange(others)

\* The share and the error of the caller's call for the own identity own,
\* on the Combiner built for own over others.
ShareOver(c, own, others) ==
    LET r == GenAdditiveShareQP(NewCombiner(own, others, inst[c].cmb.threshold),
                                run[c].actives, own, run[c].ownShare, NewPolyQP)
    IN <<r.skOut, r.err>>

CoveringFor(c, own, others) ==
    /\ Len(run[c].actives) >= inst[c].cmb.threshold
    /\ SeqRange(Prefix(run[c].actives, inst[c].cmb.threshold)) \ {own}
           \subseteq SeqRange(others)

\* C19: when the list a Combiner was built over contains every identity
\* among the first threshold entries of the active list other than own, a
\* GenAdditiveShareQP call on it returns the share and the error that the
\* call returns on the Combiner NewCombiner builds, for the same own and
\* threshold, over any other set of identities containing them: for the
\* call the caller made and, once both callers have returned, for the same
\* call under every own identity.
C19_AnyCoveringSet ==
    \A c \in Callers :
        (run[c].pc = "done" /\ run[c].variant = "QP")
        => /\ (hist.solo /\ Covering(c, inst[c].others))
                 => \A B \in SUBSET PointSet :
                       Covering(c, ListOf(B))
                           => ShareOver(c, run[c].ownPoint, ListOf(B))
                                 = <<run[c].out, run[c].err>>
           /\ (\A d \in Callers : run[d].pc = "done")
                 => \A own \in PointSet :
                       CoveringFor(c, own, inst[c].others)
                           => LET built == ShareOver(c, own, inst[c].others)
                              IN \A B \in SUBSET PointSet :
                                    CoveringFor(c, own, ListOf(B))
                                        => ShareOver(c, own, ListOf(B)) = built

\* A call with threshold 2 on a Combiner built over all the identities, own
\* included, returned the share that the Combiner built over the two
\* identities it needs and two foreign ones returns.
C19_Witness ==
    LET B == ListOf({0, NParties - 1, NParties, 8})
    IN /\ inst[1].others = CallPoints /\ inst[1].cmb.threshold = 2
       /\ run[2].pc = "done" /\ run[2].variant = "QP" /\ hist.solo
       /\ run[2].err = NoErr /\ run[2].out # run[2].ownShare
       /\ Needed(2) = {NParties - 1, NParties}
       /\ Covering(2, inst[2].others) /\ Covering(2, B)
       /\ ShareOver(2, run[2].ownPoint, B) = <<run[2].out, NoErr>>

\* C20: GenShamirSecretShareQP and GenShamirSecretShareQ, which return no
\* error, write for the recipient identity 0 coefficient 0 of the polynomial
\* on every limb, whatever the threshold: the secret the polynomial was
\* generated from, unless the caller has overwritten that coefficient.
C20_IdentityZero ==
    (call.evaluated /\ call.recipient = 0)
        => /\ call.share = call.mem[call.value[1]]
           /\ \A l \in 1..Len(ChainOf(VariantOf(call.op))) :
                 AllLimbs(VariantOf(call.op), call.share)[l]
                     = AllLimbs(VariantOf(call.op), call.mem[call.value[1]])[l]
           /\ 1 \notin call.wrote => call.share = call.given

\* The share of a polynomial of MaxT coefficients over QP was evaluated at
\* identity 0 and is the secret, which the sampled coefficients are not.
C20_Witness ==
    /\ call.op = "GenShamirPolynomialQP" /\ call.done /\ call.evaluated
    /\ call.threshold = MaxT /\ call.wrote = {} /\ call.recipient = 0
    /\ call.share = call.given
    /\ call.share # NewPolyQP
    /\ \A j \in 2..MaxT : call.mem[call.value[j]] # call.given

====
